---- MODULE Spec2Model ----
(***************************************************************************)
(* movieparse: resolution-and-caching pipeline of src/movieparse/main.py.  *)
(*                                                                         *)
(* One Python process works on one output directory.  The directory holds  *)
(* mapping.csv and one CSV per metadata table; the process holds the class *)
(* attributes of `movieparse` and at most one live instance.  A parse call *)
(* is followed through its stages: the merge, the resolution loop (one row *)
(* per step), the save of mapping.csv, the fetch set, and the metadata     *)
(* loop (one ID per step).                                                 *)
(*                                                                         *)
(* A name is a tuple of one-character strings, so that the parsing         *)
(* patterns are matched character by character.  A table row is            *)
(* represented by the columns the program reads: a metadata row by its     *)
(* tmdb_id, a table by the number of rows it holds for each tmdb_id (no     *)
(* operation reads the order of the rows).  The names of the model are     *)
(* names the CSV layer reads back as the same string.                      *)
(***************************************************************************)
EXTENDS Integers, Sequences, FiniteSets, TLC

VARIABLES
    disk_mapping,         \* mapping.csv: [exists, rows]
    disk_tables,          \* the metadata CSVs: table name -> rows (none: no file)
    cached_metadata_ids,  \* class attribute movieparse.cached_metadata_ids
    pc,                   \* "none" | "idle" | "get_ids" | "get_metadata"
    EAGER, STRICT, PARSING_STYLE,
    cached_mapping,       \* self.cached_mapping
    mapping,              \* self.mapping
    tables,               \* self.cast, self.collect, ... self.details
    metadata_lookup_ids,  \* self.metadata_lookup_ids
    idx,                  \* position of the resolution loop in self.mapping
    resolved,             \* tmdb_ids computed so far by the resolution loop
    todo,                 \* IDs the metadata loop has still to fetch
    movielist,            \* the batch of the current parse call
    requests,             \* the requests issued by the current parse call
    outcome,              \* how the last call ended: "ok" | "raised" | "exit"
    saved_batch,          \* the names of the batch that last wrote mapping.csv
    rerun,                \* the current call repeats that batch on the saved mapping
    lookup,               \* one _get_id call: its arguments, answers and result
    dissect,              \* one _dissect_metadata_response call
    guess,                \* one _guess_parsing_style call
    ctor,                 \* one check of the arguments of __init__
    calls,                \* parse calls made so far
    edits                 \* manual edits of mapping.csv made so far

vars == <<disk_mapping, disk_tables, cached_metadata_ids, pc, EAGER, STRICT,
          PARSING_STYLE, cached_mapping, mapping, tables, metadata_lookup_ids,
          idx, resolved, todo, movielist, requests, outcome, saved_batch, rerun,
          lookup, dissect, guess, ctor, calls, edits>>

disk == <<disk_mapping, disk_tables>>
config == <<EAGER, STRICT, PARSING_STYLE>>
loops == <<idx, resolved, todo>>
counters == <<calls, edits>>
single_calls == <<lookup, dissect, guess, ctor>>
program == <<disk, cached_metadata_ids, pc, config, cached_mapping, mapping, tables,
             metadata_lookup_ids, loops, movielist, requests, outcome, saved_batch,
             rerun, counters>>

-----------------------------------------------------------------------------
(* Bounds of the model. *)

MaxCalls == 2
MaxList == 2
MaxEdits == 1
MaxGuessList == 3

-----------------------------------------------------------------------------
(* Sentinel codes. *)

__DEFAULT == 0
__NO_RESULT == -1
__NO_EXTRACT == -2
__BAD_RESPONSE == -3

Sentinels == {__DEFAULT, __NO_RESULT, __NO_EXTRACT, __BAD_RESPONSE}

\* Catalog IDs the service answers with (positive, disjoint from the sentinels).
Ids == {603, 27205}

-----------------------------------------------------------------------------
(* Names and the parsing patterns. *)

Digits == {"0", "1", "2", "3", "4", "5", "6", "7", "8", "9"}

\* \s of Python's re on str
Whitespace == {" ", "\t", "\n", "\r"}

IsDigits4(name) == Len(name) >= 4 /\ \A i \in 1..4 : name[i] \in Digits

\* .+ followed by $ : one or more characters other than a newline
\* ($ also matches before one trailing newline)
IsDotPlus(s) ==
    LET body == IF Len(s) >= 1 /\ s[Len(s)] = "\n" THEN SubSeq(s, 1, Len(s) - 1) ELSE s
    IN  Len(body) >= 1 /\ \A i \in 1..Len(body) : body[i] # "\n"

\* TitleStart with \S+ for the title of pattern 0
TitleStart_no_space_title(style, name) ==
    IF ~IsDigits4(name) THEN 0
    ELSE IF style = 0
         THEN IF Len(name) >= 6 /\ name[5] \in Whitespace
                 /\ \A i \in 6..Len(name) : name[i] \notin Whitespace
              THEN 6 ELSE 0
    ELSE IF style = 1
         THEN IF Len(name) >= 8 /\ name[5] \in Whitespace /\ name[6] = "-"
                 /\ name[7] \in Whitespace /\ IsDotPlus(SubSeq(name, 8, Len(name)))
              THEN 8 ELSE 0
    ELSE 0

\* start of group disk_title under pattern `style`, 0 when the name does not match
TitleStart(style, name) ==
    IF ~IsDigits4(name) THEN 0
    ELSE IF style = 0
         THEN IF Len(name) >= 6 /\ name[5] \in Whitespace
                 /\ IsDotPlus(SubSeq(name, 6, Len(name)))
              THEN 6 ELSE 0
    ELSE IF style = 1
         THEN IF Len(name) >= 8 /\ name[5] \in Whitespace /\ name[6] = "-"
                 /\ name[7] \in Whitespace /\ IsDotPlus(SubSeq(name, 8, Len(name)))
              THEN 8 ELSE 0
    ELSE 0

get_parsing_patterns == {0, 1}

Matches(style, name) == TitleStart(style, name) # 0

DigitVal(c) ==
    CASE c = "0" -> 0 [] c = "1" -> 1 [] c = "2" -> 2 [] c = "3" -> 3 [] c = "4" -> 4
      [] c = "5" -> 5 [] c = "6" -> 6 [] c = "7" -> 7 [] c = "8" -> 8 [] c = "9" -> 9

\* int(extract.group("disk_year"))
DiskYear(name) ==
    DigitVal(name[1]) * 1000 + DigitVal(name[2]) * 100 + DigitVal(name[3]) * 10
        + DigitVal(name[4])

\* extract.group("disk_title"): up to the end, or to the newline that ends the name
DiskTitle(style, name) ==
    SubSeq(name, TitleStart(style, name),
           IF name[Len(name)] = "\n" THEN Len(name) - 1 ELSE Len(name))

\* the names of the batches: "1999 M" and "Inc"
Names == { <<"1", "9", "9", "9", " ", "M">>, <<"I", "n", "c">> }

-----------------------------------------------------------------------------
(* Tables. *)

\* _table_iter, in its order
TableNames == <<"cast", "collection", "crew", "genres", "production_companies",
                "production_countries", "spoken_languages", "details">>

TableSet == {TableNames[i] : i \in 1..Len(TableNames)}

\* the values of a tmdb_id column
TmdbIds == Ids \cup Sentinels

\* pd.DataFrame(): no rows
EmptyTable == [id \in TmdbIds |-> 0]

EmptyTables == [t \in TableSet |-> EmptyTable]

\* df.empty
IsEmpty(df) == \A id \in TmdbIds : df[id] = 0

\* set(df["tmdb_id"])
TableIds(df) == {id \in TmdbIds : df[id] > 0}

Range(s) == {s[i] : i \in 1..Len(s)}

NewRow(name) ==
    [tmdb_id |-> __DEFAULT, tmdb_id_man |-> __DEFAULT, input |-> name,
     canonical_input |-> name]

\* pd.DataFrame({"tmdb_id": 0, "tmdb_id_man": 0, "input": l, "canonical_input": l})
NewMapping(l) == [i \in 1..Len(l) |-> NewRow(l[i])]

\* drop_duplicates(subset="canonical_input", keep="first")
drop_duplicates(rows) ==
    LET keep(i) == \A j \in 1..(i - 1) : rows[j].canonical_input # rows[i].canonical_input
        F[i \in 0..Len(rows)] ==
            IF i = 0 THEN <<>>
            ELSE IF keep(i) THEN Append(F[i - 1], rows[i]) ELSE F[i - 1]
    IN  F[Len(rows)]

\* the merge with the fresh rows first: a fresh row wins over a persisted one
_update_mapping_fresh_first(cached, fresh) == drop_duplicates(fresh \o cached)

\* the merge without drop_duplicates
_update_mapping_no_dedup(cached, fresh) == cached \o fresh

\* pd.concat([self.cached_mapping, self.mapping]).drop_duplicates(...)
_update_mapping(cached, fresh) == drop_duplicates(cached \o fresh)

\* set(self.cached_mapping["tmdb_id"])
cached_mapping_ids == {cached_mapping[i].tmdb_id : i \in 1..Len(cached_mapping)}

-----------------------------------------------------------------------------
(* The lookup service and _get_id. *)

\* A search response: the "results" field may be missing, and a result may
\* lack its "id".
NoResultsField == [has_results |-> FALSE, results |-> <<>>]
Results(items) == [has_results |-> TRUE, results |-> items]
Item(id) == [has_id |-> TRUE, id |-> id]
ItemNoId == [has_id |-> FALSE, id |-> 0]

SearchResponses ==
    {NoResultsField, Results(<<>>), Results(<<ItemNoId>>), Results(<<Item(603)>>),
     Results(<<Item(27205), Item(603)>>)}

\* int(response["results"][0]["id"]) and the exception it raises
FirstId(response) ==
    IF ~response.has_results THEN [exc |-> "KeyError", id |-> 0]
    ELSE IF Len(response.results) = 0 THEN [exc |-> "IndexError", id |-> 0]
    ELSE IF ~response.results[1].has_id THEN [exc |-> "KeyError", id |-> 0]
    ELSE [exc |-> "none", id |-> response.results[1].id]

\* the requests: /search/movie with and without &year= (lines 178, 189) and
\* /movie/{tmdb_id} (line 274)
SearchTY(title, year) == [op |-> "search_title_year", title |-> title, year |-> year, id |-> 0]
SearchT(title) == [op |-> "search_title", title |-> title, year |-> 0, id |-> 0]
Movie(id) == [op |-> "movie", title |-> <<>>, year |-> 0, id |-> id]

\* the title-only request with its except clauses swapped
TitleOnly_swapped(title, r2, sent) ==
    LET f == FirstId(r2)
        reqs == Append(sent, SearchT(title))
    IN  IF f.exc = "none" THEN [id |-> f.id, reqs |-> reqs]
        ELSE IF f.exc = "IndexError" THEN [id |-> __BAD_RESPONSE, reqs |-> reqs]
        ELSE [id |-> __NO_RESULT, reqs |-> reqs]

\* the title-only request and its outcome (lines 189-197)
TitleOnly(title, r2, sent) ==
    LET f == FirstId(r2)
        reqs == Append(sent, SearchT(title))
    IN  IF f.exc = "none" THEN [id |-> f.id, reqs |-> reqs]
        ELSE IF f.exc = "IndexError" THEN [id |-> __NO_RESULT, reqs |-> reqs]
        ELSE [id |-> __BAD_RESPONSE, reqs |-> reqs]

\* _get_id with the strict flag ignored: an empty title+year result always
\* falls back
_get_id_never_strict(strict, title, year, r1, r2) ==
    IF year # __NO_RESULT
    THEN LET f == FirstId(r1)
             sent == <<SearchTY(title, year)>>
         IN  IF f.exc = "none" THEN [id |-> f.id, reqs |-> sent]
             ELSE IF f.exc = "IndexError" THEN TitleOnly(title, r2, sent)
             ELSE [id |-> __BAD_RESPONSE, reqs |-> sent]
    ELSE TitleOnly(title, r2, <<>>)

\* _get_id with one except clause for both exceptions: a malformed
\* title+year answer is handled like an empty one
_get_id_one_except(strict, title, year, r1, r2) ==
    IF year # __NO_RESULT
    THEN LET f == FirstId(r1)
             sent == <<SearchTY(title, year)>>
         IN  IF f.exc = "none" THEN [id |-> f.id, reqs |-> sent]
             ELSE IF strict THEN [id |-> __NO_RESULT, reqs |-> sent]
             ELSE TitleOnly(title, r2, sent)
    ELSE TitleOnly(title, r2, <<>>)

\* _get_id(title, year) under self.__STRICT = strict, the service answering r1
\* to the first request and r2 to the second: the ID returned and the
\* requests issued
_get_id(strict, title, year, r1, r2) ==
    IF year # __NO_RESULT
    THEN LET f == FirstId(r1)
             sent == <<SearchTY(title, year)>>
         IN  IF f.exc = "none" THEN [id |-> f.id, reqs |-> sent]
             ELSE IF f.exc = "IndexError"
                  THEN IF strict THEN [id |-> __NO_RESULT, reqs |-> sent]
                       ELSE TitleOnly(title, r2, sent)
             ELSE [id |-> __BAD_RESPONSE, reqs |-> sent]
    ELSE TitleOnly(title, r2, <<>>)

\* helper that keeps only a real catalog ID: a row holding a failure code is
\* resolved again
helper_retries_failures(eager, strict, style, canon_name, tmdb_id, r1, r2) ==
    IF tmdb_id > 0 /\ ~eager THEN [id |-> tmdb_id, reqs |-> <<>>]
    ELSE IF Matches(style, canon_name)
         THEN _get_id(strict, DiskTitle(style, canon_name), DiskYear(canon_name), r1, r2)
         ELSE [id |-> __NO_EXTRACT, reqs |-> <<>>]

\* helper(canon_name, tmdb_id) of _get_ids
helper(eager, strict, style, canon_name, tmdb_id, r1, r2) ==
    IF tmdb_id # __DEFAULT /\ ~eager THEN [id |-> tmdb_id, reqs |-> <<>>]
    ELSE IF Matches(style, canon_name)
         THEN _get_id(strict, DiskTitle(style, canon_name), DiskYear(canon_name), r1, r2)
         ELSE [id |-> __NO_EXTRACT, reqs |-> <<>>]

-----------------------------------------------------------------------------
(* The fetch set. *)

\* the fetch set with __DEFAULT left out of the codes to remove
_update_metadata_lookup_ids_keeps_default(eager, rows, cached_ids) ==
    LET all == {rows[i].tmdb_id : i \in 1..Len(rows)}
                   \cup {rows[i].tmdb_id_man : i \in 1..Len(rows)}
        kept == IF eager THEN all \ cached_ids ELSE all
    IN  kept \ {__NO_RESULT, __NO_EXTRACT, __BAD_RESPONSE}

\* _update_metadata_lookup_ids
_update_metadata_lookup_ids(eager, rows, cached_ids) ==
    LET all == {rows[i].tmdb_id : i \in 1..Len(rows)}
                   \cup {rows[i].tmdb_id_man : i \in 1..Len(rows)}
        kept == IF eager THEN all \ cached_ids ELSE all
    IN  kept \ {__DEFAULT, __NO_RESULT, __NO_EXTRACT, __BAD_RESPONSE}

-----------------------------------------------------------------------------
(* The metadata service and _dissect_metadata_response. *)

\* A metadata document, by the state of the sections the normalizer reads:
\* "rows" (a list of one record, or an object), "empty" (an empty list),
\* "null", "missing".
DocFull ==
    [credits |-> "rows", cast |-> "rows", crew |-> "rows", id |-> "rows",
     belongs_to_collection |-> "rows", genres |-> "rows",
     production_companies |-> "rows", production_countries |-> "rows",
     spoken_languages |-> "rows"]

DocNoCollection == [DocFull EXCEPT !.belongs_to_collection = "null"]

DocNoGenres == [DocFull EXCEPT !.genres = "missing"]

Docs == {DocFull, DocNoCollection, DocNoGenres}

\* pd.json_normalize(section, record_path=c): the number of rows, -1 for an
\* exception
ListRows(v) == IF v = "rows" THEN 1 ELSE IF v = "empty" THEN 0 ELSE -1

\* Extract without the test of belongs_to_collection against None
Extract_collection_unchecked(doc, c) ==
    IF c \in {"cast", "crew"}
    THEN IF doc.credits = "missing" THEN -1 ELSE ListRows(doc[c])
    ELSE IF c = "collection"
    THEN IF doc.belongs_to_collection \in {"missing", "null"} THEN -1 ELSE 1
    ELSE IF c = "details"
    THEN IF doc.credits = "missing" \/ doc.id = "missing" THEN -1 ELSE 1
    ELSE ListRows(doc[c])

\* the rows table c gets from the document (lines 238-250), -1 when the
\* extraction raises
Extract(doc, c) ==
    IF c \in {"cast", "crew"}
    THEN IF doc.credits = "missing" THEN -1 ELSE ListRows(doc[c])
    ELSE IF c = "collection"
    THEN IF doc.belongs_to_collection = "missing" THEN -1
         ELSE IF doc.belongs_to_collection = "null" THEN 0 ELSE 1
    ELSE IF c = "details"
    THEN IF doc.credits = "missing" \/ doc.id = "missing" THEN -1 ELSE 1
    ELSE ListRows(doc[c])

Raises(doc) == \E c \in TableSet : Extract(doc, c) = -1

\* pd.concat([df, tmp]) for the n rows of tmp, skipped when tmp is empty
Concat(df, n, tmdb_id) == [df EXCEPT ![tmdb_id] = @ + n]

\* _dissect_metadata_response when no extraction raises: every table with
\* the document's rows appended, each row tagged tmdb_id
_dissect_metadata_response(tbls, doc, tmdb_id) ==
    [c \in TableSet |-> Concat(tbls[c], Extract(doc, c), tmdb_id)]

\* one call of _dissect_metadata_response on the accumulators tbls: an
\* exception of an extraction leaves the method before line 263 assigns the
\* tables, and reaches the caller
Dissect(tbls, doc, tmdb_id) ==
    [raised |-> Raises(doc),
     tables |-> IF Raises(doc) THEN tbls
                ELSE _dissect_metadata_response(tbls, doc, tmdb_id)]

-----------------------------------------------------------------------------
(* Inputs. *)

\* the lists of at most MaxList names
Lists == UNION {[1..n -> Names] : n \in 0..MaxList}

\* the entries of a directory: no name twice
Listings == {l \in Lists : \A i, j \in 1..Len(l) : i # j => l[i] # l[j]}

NoLookup ==
    [phase |-> "none", strict |-> FALSE, title |-> <<>>, year |-> 0,
     r1 |-> NoResultsField, r2 |-> NoResultsField, id |-> 0, reqs |-> <<>>]

NoDissect ==
    [phase |-> "none", before |-> EmptyTables, doc |-> DocFull, tmdb_id |-> 603,
     raised |-> FALSE, after |-> EmptyTables]

NoGuess == [phase |-> "none", names |-> <<>>, style |-> -1, exits |-> FALSE]

NoCtor ==
    [phase |-> "none", is_dir |-> TRUE, has_key |-> TRUE, parsing_style |-> -1,
     eager |-> FALSE, strict |-> FALSE, accepted |-> FALSE]

-----------------------------------------------------------------------------
(* The process and the instance. *)

\* the class attributes a new process starts with (lines 12-16), no instance
FreshProcess ==
    /\ pc' = "none"
    /\ cached_metadata_ids' = {}
    /\ EAGER' = FALSE /\ STRICT' = FALSE /\ PARSING_STYLE' = -1
    /\ cached_mapping' = <<>>
    /\ mapping' = <<>>
    /\ tables' = EmptyTables
    /\ metadata_lookup_ids' = {}
    /\ idx' = 0 /\ resolved' = <<>> /\ todo' = {}
    /\ movielist' = <<>>
    /\ requests' = <<>>
    /\ rerun' = FALSE

Init ==
    /\ disk_mapping = [exists |-> FALSE, rows |-> <<>>]
    /\ disk_tables = EmptyTables
    /\ pc = "none"
    /\ cached_metadata_ids = {}
    /\ EAGER = FALSE /\ STRICT = FALSE /\ PARSING_STYLE = -1
    /\ cached_mapping = <<>>
    /\ mapping = <<>>
    /\ tables = EmptyTables
    /\ metadata_lookup_ids = {}
    /\ idx = 0 /\ resolved = <<>> /\ todo = {}
    /\ movielist = <<>>
    /\ requests = <<>>
    /\ outcome = "ok"
    /\ saved_batch = {}
    /\ rerun = FALSE
    /\ lookup = NoLookup /\ dissect = NoDissect /\ guess = NoGuess /\ ctor = NoCtor
    /\ calls = 0 /\ edits = 0

\* exit(...): the process ends, its memory is gone, the directory stays
Exit ==
    /\ FreshProcess
    /\ outcome' = "exit"
    /\ UNCHANGED <<disk, saved_batch, single_calls, edits>>

\* the process ends after a call returned
EndProcess ==
    /\ pc = "idle"
    /\ FreshProcess
    /\ UNCHANGED <<disk, outcome, saved_batch, single_calls, counters>>

\* the parsing_style values __init__ accepts (line 58)
MaxStyle == CHOOSE m \in get_parsing_patterns : \A k \in get_parsing_patterns : k <= m

\* the selectors a caller passes
StyleInputs == -1..(MaxStyle + 1)

\* range(-1, max(movieparse.get_parsing_patterns().keys()))
ValidStyles == {s \in StyleInputs : s >= -1 /\ s < MaxStyle}

\* movieparse(output_path, tmdb_api_key, parsing_style, eager, strict):
\* __init__ with _setup_caches and _read_existing
Construct ==
    /\ pc \in {"none", "idle"}
    /\ \E is_dir \in BOOLEAN, has_key \in BOOLEAN :
          IF ~is_dir \/ ~has_key
          THEN Exit /\ UNCHANGED calls
          ELSE \E parsing_style \in StyleInputs :
                 IF parsing_style \notin ValidStyles
                 THEN Exit /\ UNCHANGED calls
                 ELSE \E eager \in BOOLEAN, strict \in BOOLEAN :
                        /\ EAGER' = eager /\ STRICT' = strict
                        /\ PARSING_STYLE' = parsing_style
                        /\ cached_mapping' =
                               IF disk_mapping.exists THEN disk_mapping.rows ELSE <<>>
                        /\ tables' = disk_tables
                        /\ cached_metadata_ids' =
                               cached_metadata_ids
                                   \cup UNION {TableIds(disk_tables[t]) : t \in TableSet}
                        /\ mapping' = <<>>
                        /\ metadata_lookup_ids' = {}
                        /\ pc' = "idle"
                        /\ requests' = <<>>
                        /\ movielist' = <<>>
                        /\ rerun' = FALSE
                        /\ UNCHANGED <<disk, loops, outcome, saved_batch, single_calls,
                                       counters>>

-----------------------------------------------------------------------------
(* A parse call. *)

\* str.extract(pattern).notnull().sum().sum(): two fields per matching name
FieldMatches(style, names) ==
    2 * Cardinality({i \in 1..Len(names) : Matches(style, names[i])})

\* the loop of _guess_parsing_style over the patterns 0, 1 in order:
\* [style, max_matches] after pattern k
\* the loop with >= for > : the last of the best patterns is kept
RECURSIVE GuessLoop_last_on_tie(_, _)
GuessLoop_last_on_tie(k, names) ==
    IF k = -1 THEN [style |-> -1, max_matches |-> 0]
    ELSE LET before == GuessLoop_last_on_tie(k - 1, names)
             matches == FieldMatches(k, names)
         IN  IF matches >= before.max_matches
             THEN [style |-> k, max_matches |-> matches]
             ELSE before

RECURSIVE GuessLoop(_, _)
GuessLoop(k, names) ==
    IF k = -1 THEN [style |-> -1, max_matches |-> 0]
    ELSE LET before == GuessLoop(k - 1, names)
             matches == FieldMatches(k, names)
         IN  IF matches > before.max_matches
             THEN [style |-> k, max_matches |-> matches]
             ELSE before

\* _guess_parsing_style on a batch: the style chosen, -1 when it exits
_guess_parsing_style(names) == GuessLoop(MaxStyle, names).style

\* _generic_parse up to the resolution loop: the style guess and the merge
GenericParse(names) ==
    LET style == IF PARSING_STYLE = -1 THEN _guess_parsing_style(names)
                 ELSE PARSING_STYLE
    IN  IF style = -1
        THEN Exit
        ELSE /\ PARSING_STYLE' = style
             /\ mapping' = _update_mapping(cached_mapping, NewMapping(names))
             /\ movielist' = names
             /\ pc' = "get_ids"
             /\ idx' = 1
             /\ resolved' = <<>>
             /\ requests' = <<>>
             /\ rerun' = /\ disk_mapping.exists
                         /\ cached_mapping = disk_mapping.rows
                         /\ Range(names) = saved_batch
             /\ UNCHANGED <<disk, cached_metadata_ids, EAGER, STRICT, cached_mapping,
                            tables, metadata_lookup_ids, todo, outcome, saved_batch,
                            single_calls, edits>>

\* raise Exception(...): the call ends, the instance is as it was
Raise ==
    /\ outcome' = "raised"
    /\ UNCHANGED <<disk, cached_metadata_ids, pc, config, cached_mapping, mapping,
                   tables, metadata_lookup_ids, loops, movielist, requests,
                   saved_batch, rerun, single_calls, edits>>

parse_movielist ==
    /\ pc = "idle"
    /\ calls < MaxCalls
    /\ calls' = calls + 1
    /\ \E l \in Lists :
          IF l = <<>> THEN Raise ELSE GenericParse(l)

parse_root_movie_dir ==
    /\ pc = "idle"
    /\ calls < MaxCalls
    /\ calls' = calls + 1
    /\ \E is_dir \in BOOLEAN, names \in Listings :
          IF ~is_dir THEN Raise ELSE GenericParse(names)

\* one turn of the list comprehension of _get_ids (lines 214-221)
GetIdsStep ==
    /\ pc = "get_ids"
    /\ idx <= Len(mapping)
    /\ \E r1, r2 \in SearchResponses :
          LET h == helper(EAGER, STRICT, PARSING_STYLE, mapping[idx].canonical_input,
                          mapping[idx].tmdb_id, r1, r2)
          IN  /\ resolved' = Append(resolved, h.id)
              /\ requests' = requests \o h.reqs
    /\ idx' = idx + 1
    /\ UNCHANGED <<disk, cached_metadata_ids, pc, config, cached_mapping, mapping,
                   tables, metadata_lookup_ids, todo, movielist, outcome,
                   saved_batch, rerun, single_calls, counters>>

\* self.mapping["tmdb_id"] = [...]
SetTmdbIds(rows, ids) == [i \in 1..Len(rows) |-> [rows[i] EXCEPT !.tmdb_id = ids[i]]]

\* the end of _get_ids (the assignment of the column and to_csv), then
\* _update_metadata_lookup_ids
GetIdsDone ==
    /\ pc = "get_ids"
    /\ idx > Len(mapping)
    /\ mapping' = SetTmdbIds(mapping, resolved)
    /\ disk_mapping' = [exists |-> TRUE, rows |-> mapping']
    /\ saved_batch' = Range(movielist)
    /\ metadata_lookup_ids' =
           _update_metadata_lookup_ids(EAGER, mapping', cached_metadata_ids)
    /\ todo' = metadata_lookup_ids'
    /\ pc' = "get_metadata"
    /\ idx' = 0
    /\ resolved' = <<>>
    /\ UNCHANGED <<disk_tables, cached_metadata_ids, config, cached_mapping, tables,
                   movielist, requests, outcome, rerun, single_calls, counters>>

\* one turn of the loop of _get_metadata: the request and
\* _dissect_metadata_response; an exception of the normalizer ends the call
GetMetadataStep ==
    /\ pc = "get_metadata"
    /\ todo # {}
    /\ \E tmdb_id \in todo, doc \in Docs :
          /\ requests' = Append(requests, Movie(tmdb_id))
          /\ IF Raises(doc)
             THEN /\ pc' = "idle"
                  /\ outcome' = "raised"
                  /\ todo' = {}
                  /\ UNCHANGED tables
             ELSE /\ tables' = _dissect_metadata_response(tables, doc, tmdb_id)
                  /\ todo' = todo \ {tmdb_id}
                  /\ UNCHANGED <<pc, outcome>>
    /\ UNCHANGED <<disk, cached_metadata_ids, config, cached_mapping, mapping,
                   metadata_lookup_ids, idx, resolved, movielist, saved_batch, rerun,
                   single_calls, counters>>

\* the loop of _get_metadata is over: the parse call returns
GetMetadataDone ==
    /\ pc = "get_metadata"
    /\ todo = {}
    /\ pc' = "idle"
    /\ outcome' = "ok"
    /\ UNCHANGED <<disk, cached_metadata_ids, config, cached_mapping, mapping, tables,
                   metadata_lookup_ids, loops, movielist, requests, saved_batch, rerun,
                   single_calls, counters>>

\* write(): every non-empty table goes to its CSV
write ==
    /\ pc = "idle"
    /\ disk_tables' = [t \in TableSet |->
                          IF ~IsEmpty(tables[t]) THEN tables[t] ELSE disk_tables[t]]
    /\ UNCHANGED <<disk_mapping, cached_metadata_ids, pc, config, cached_mapping,
                   mapping, tables, metadata_lookup_ids, loops, movielist, requests,
                   outcome, saved_batch, rerun, single_calls, counters>>

\* values a user writes into the tmdb_id_man column of mapping.csv
ManualValues == {27205, __NO_RESULT}

\* the user edits tmdb_id_man of one row of mapping.csv between two runs
EditManual ==
    /\ pc = "none"
    /\ edits < MaxEdits
    /\ edits' = edits + 1
    /\ \E i \in 1..Len(disk_mapping.rows), v \in ManualValues :
          disk_mapping' = [disk_mapping EXCEPT !.rows[i].tmdb_id_man = v]
    /\ UNCHANGED <<disk_tables, cached_metadata_ids, pc, config, cached_mapping,
                   mapping, tables, metadata_lookup_ids, loops, movielist, requests,
                   outcome, saved_batch, rerun, single_calls, calls>>

Next ==
    \/ Construct
    \/ EndProcess
    \/ parse_movielist
    \/ parse_root_movie_dir
    \/ GetIdsStep
    \/ GetIdsDone
    \/ GetMetadataStep
    \/ GetMetadataDone
    \/ write
    \/ EditManual

Spec == Init /\ [][Next]_vars

-----------------------------------------------------------------------------
(* _get_id on its own: every flag, title+year and title-only calls, every   *)
(* pair of answers of the service.                                          *)

Titles == { <<"M">>, <<"I", "n", "c">> }

Years == {1999, 2010, -1}

InitResolve ==
    /\ disk_mapping = [exists |-> FALSE, rows |-> <<>>]
    /\ disk_tables = EmptyTables
    /\ pc = "none"
    /\ cached_metadata_ids = {}
    /\ EAGER = FALSE /\ STRICT = FALSE /\ PARSING_STYLE = -1
    /\ cached_mapping = <<>>
    /\ mapping = <<>>
    /\ tables = EmptyTables
    /\ metadata_lookup_ids = {}
    /\ idx = 0 /\ resolved = <<>> /\ todo = {}
    /\ movielist = <<>>
    /\ requests = <<>>
    /\ outcome = "ok"
    /\ saved_batch = {}
    /\ rerun = FALSE
    /\ calls = 0 /\ edits = 0
    /\ dissect = NoDissect /\ guess = NoGuess /\ ctor = NoCtor
    /\ \E strict \in BOOLEAN, title \in Titles, year \in Years,
          r1 \in SearchResponses, r2 \in SearchResponses :
          lookup = [phase |-> "call", strict |-> strict, title |-> title, year |-> year,
                    r1 |-> r1, r2 |-> r2, id |-> 0, reqs |-> <<>>]

Resolve ==
    /\ lookup.phase = "call"
    /\ LET out == _get_id(lookup.strict, lookup.title, lookup.year, lookup.r1, lookup.r2)
       IN  lookup' = [lookup EXCEPT !.phase = "returned", !.id = out.id,
                                    !.reqs = out.reqs]
    /\ UNCHANGED <<disk, cached_metadata_ids, pc, config, cached_mapping, mapping,
                   tables, metadata_lookup_ids, loops, movielist, requests, outcome,
                   saved_batch, rerun, counters, dissect, guess, ctor>>

NextResolve == Resolve

SpecResolve == InitResolve /\ [][NextResolve]_vars

-----------------------------------------------------------------------------
(* Properties of _get_id, under SpecResolve. *)

IsEmptyResult(r) == r.has_results /\ r.results = <<>>

IsMalformed(r) == ~r.has_results \/ (r.results # <<>> /\ ~r.results[1].has_id)

TitleYearIssued == lookup.phase = "returned" /\ lookup.year # -1

\* C5: with strict=true, when the title+year lookup returns an empty result
\* set, _get_id returns NO_RESULT (-1) and the title+year request is the only
\* request issued (no title-only lookup).
C5_StrictNoFallback ==
    (TitleYearIssued /\ lookup.strict /\ IsEmptyResult(lookup.r1))
        => /\ lookup.id = -1
           /\ lookup.reqs = <<SearchTY(lookup.title, lookup.year)>>

C5_Witness ==
    /\ TitleYearIssued /\ lookup.strict /\ IsEmptyResult(lookup.r1)
    /\ ~IsEmptyResult(lookup.r2) /\ ~IsMalformed(lookup.r2)
    /\ lookup.id = -1

\* C6: with strict=false, when the title+year lookup returns an empty result
\* set, _get_id issues exactly one title-only lookup after it and returns that
\* lookup's outcome: the first result's ID, NO_RESULT (-1) for an empty result
\* set, BAD_RESPONSE (-3) for a malformed payload.
C6_FallbackOutcome ==
    (TitleYearIssued /\ ~lookup.strict /\ IsEmptyResult(lookup.r1))
        => /\ lookup.reqs = <<SearchTY(lookup.title, lookup.year), SearchT(lookup.title)>>
           /\ lookup.id = IF IsEmptyResult(lookup.r2) THEN -1
                          ELSE IF IsMalformed(lookup.r2) THEN -3
                          ELSE lookup.r2.results[1].id

C6_Witness ==
    /\ TitleYearIssued /\ ~lookup.strict /\ IsEmptyResult(lookup.r1)
    /\ Len(lookup.r2.results) = 2
    /\ lookup.id = 27205
    /\ Len(lookup.reqs) = 2

\* C7: for both values of strict, when the title+year lookup returns a
\* malformed payload (no results field, or no id in the first result), _get_id
\* returns BAD_RESPONSE (-3) and the title+year request is the only request
\* issued.
C7_MalformedNoRetry ==
    (TitleYearIssued /\ IsMalformed(lookup.r1))
        => /\ lookup.id = -3
           /\ lookup.reqs = <<SearchTY(lookup.title, lookup.year)>>

C7_Witness ==
    /\ TitleYearIssued /\ ~lookup.strict /\ lookup.r1 = Results(<<ItemNoId>>)
    /\ lookup.r2 = Results(<<Item(603)>>)
    /\ lookup.id = -3

-----------------------------------------------------------------------------
(* Properties of the pipeline, under Spec. *)

Canon(rows) == {rows[i].canonical_input : i \in 1..Len(rows)}

\* the values of the tmdb_id and tmdb_id_man columns
MappingIds(rows) ==
    {rows[i].tmdb_id : i \in 1..Len(rows)} \cup {rows[i].tmdb_id_man : i \in 1..Len(rows)}

\* in state "get_metadata" the fetch set has just been computed from
\* self.mapping and cached_metadata_ids, which the metadata loop leaves alone
FetchSetComputed == pc = "get_metadata"

\* C1: with eager=false the fetch set is (tmdb_id values UNION tmdb_id_man
\* values) minus the sentinel codes minus cached_metadata_ids, so no ID found
\* in the persisted metadata tables is fetched again.
C1_FetchSetSkipsCached ==
    (FetchSetComputed /\ ~EAGER)
        => metadata_lookup_ids = (MappingIds(mapping) \ {0, -1, -2, -3}) \ cached_metadata_ids

\* C2: with eager=true every non-sentinel ID of the tmdb_id or tmdb_id_man
\* column is in the fetch set, cached or not.
C2_EagerFetchesAll ==
    (FetchSetComputed /\ EAGER)
        => (MappingIds(mapping) \ {0, -1, -2, -3}) \subseteq metadata_lookup_ids

\* C3: whatever the mapping, the cache and eager, the fetch set holds none of
\* 0, -1, -2, -3, and no metadata request is issued for one of them.
C3_NoSentinelFetched ==
    /\ metadata_lookup_ids \cap {0, -1, -2, -3} = {}
    /\ \A k \in 1..Len(requests) :
          requests[k].op = "movie" => requests[k].id \notin {0, -1, -2, -3}

C3_Witness ==
    /\ FetchSetComputed
    /\ \E i \in 1..Len(mapping) : mapping[i].tmdb_id \in {-1, -2, -3}
    /\ \E i \in 1..Len(mapping) : mapping[i].tmdb_id_man = -1
    /\ \E i \in 1..Len(mapping) : mapping[i].tmdb_id = 0 \/ mapping[i].tmdb_id_man = 0
    /\ \E k \in 1..Len(requests) : requests[k].op = "movie"
    /\ todo = {}

\* in state "get_ids" self.mapping is the result of _update_mapping on
\* self.cached_mapping and the batch
MappingMerged == pc = "get_ids"

\* C4: after _update_mapping no canonical_input occurs twice in the mapping,
\* and for every canonical_input of both the persisted mapping and the batch
\* the row that survives is the persisted row, with its tmdb_id.
C4_MergeKeepsPersisted ==
    MappingMerged
        => /\ \A i, j \in 1..Len(mapping) :
                 i # j => mapping[i].canonical_input # mapping[j].canonical_input
           /\ \A i \in 1..Len(cached_mapping) :
                 cached_mapping[i].canonical_input \in Range(movielist)
                    => \E j \in 1..Len(mapping) : mapping[j] = cached_mapping[i]

C4_Witness ==
    /\ MappingMerged
    /\ \E i \in 1..Len(cached_mapping) :
          /\ cached_mapping[i].canonical_input \in Range(movielist)
          /\ cached_mapping[i].tmdb_id = 603
    /\ Len(movielist) = 2 /\ movielist[1] = movielist[2]
    /\ Len(mapping) = 1

\* a step of the resolution loop, and the step that ends it
IsGetIdsStep == pc = "get_ids" /\ idx <= Len(mapping) /\ idx' = idx + 1

IsGetIdsDone == pc = "get_ids" /\ pc' = "get_metadata"

\* C8: in a resolution pass with eager=false a row whose tmdb_id is not
\* DEFAULT keeps its tmdb_id and causes no request; with eager=true every row
\* is resolved again: a row whose name matches the pattern gets the outcome of
\* a new title+year lookup, any other row NO_EXTRACT, and the pass covers every
\* row of the mapping.
C8_ResolutionSkipsResolved ==
    [][/\ (IsGetIdsStep /\ ~EAGER /\ mapping[idx].tmdb_id # 0)
           => /\ requests' = requests
              /\ resolved' = Append(resolved, mapping[idx].tmdb_id)
       /\ (IsGetIdsStep /\ EAGER)
           => LET name == mapping[idx].canonical_input
              IN  IF Matches(PARSING_STYLE, name)
                  THEN /\ Len(requests') > Len(requests)
                       /\ requests'[Len(requests) + 1]
                              = SearchTY(DiskTitle(PARSING_STYLE, name), DiskYear(name))
                       /\ resolved'[idx] \in Ids \cup {-1, -3}
                  ELSE /\ requests' = requests
                       /\ resolved'[idx] = -2
       /\ IsGetIdsDone
           => /\ Len(resolved) = Len(mapping)
              /\ \A i \in 1..Len(mapping) :
                    /\ mapping'[i].tmdb_id = resolved[i]
                    /\ (~EAGER /\ mapping[i].tmdb_id # 0)
                          => mapping'[i].tmdb_id = mapping[i].tmdb_id
      ]_vars

C8_Witness ==
    /\ pc = "get_metadata"
    /\ ~EAGER
    /\ \E i \in 1..Len(cached_mapping) : cached_mapping[i].tmdb_id = 603
    /\ \E i \in 1..Len(cached_mapping) : cached_mapping[i].tmdb_id = -2
    /\ mapping = cached_mapping
    /\ requests = <<>>

\* C9: a second run with eager=false on the same input set, started from the
\* mapping the first run saved, saves an identical mapping table (the same
\* rows, none twice, every tmdb_id unchanged) and asks the lookup service
\* nothing.
C9_RerunIdempotent ==
    (pc = "get_metadata" /\ rerun /\ ~EAGER)
        => /\ mapping = cached_mapping
           /\ disk_mapping = [exists |-> TRUE, rows |-> cached_mapping]
           /\ \A i, j \in 1..Len(mapping) :
                 i # j => mapping[i].canonical_input # mapping[j].canonical_input
           /\ \A k \in 1..Len(requests) : requests[k].op = "movie"

C9_Witness ==
    /\ pc = "get_metadata" /\ rerun /\ ~EAGER
    /\ Len(mapping) = 2
    /\ \E i \in 1..Len(mapping) : mapping[i].tmdb_id = -1
    /\ saved_batch = Names

\* C10: whatever the sequence of parse calls, a canonical_input that is in
\* mapping.csv stays in mapping.csv.
C10_RowsNeverDeleted ==
    [][Canon(disk_mapping.rows) \subseteq Canon(disk_mapping'.rows)]_vars

-----------------------------------------------------------------------------
(* _dissect_metadata_response on its own: one call on arbitrary arguments. *)

\* the state of the program before any instance exists
ProgramAtRest ==
    /\ disk_mapping = [exists |-> FALSE, rows |-> <<>>]
    /\ disk_tables = EmptyTables
    /\ pc = "none"
    /\ cached_metadata_ids = {}
    /\ EAGER = FALSE /\ STRICT = FALSE /\ PARSING_STYLE = -1
    /\ cached_mapping = <<>>
    /\ mapping = <<>>
    /\ tables = EmptyTables
    /\ metadata_lookup_ids = {}
    /\ idx = 0 /\ resolved = <<>> /\ todo = {}
    /\ movielist = <<>>
    /\ requests = <<>>
    /\ outcome = "ok"
    /\ saved_batch = {}
    /\ rerun = FALSE
    /\ calls = 0 /\ edits = 0

\* the documents of the metadata service: the credits, the collection and
\* the genres in each of their states
DissectDocs ==
    {[DocFull EXCEPT !.credits = cr, !.cast = people, !.crew = people,
                     !.belongs_to_collection = coll, !.genres = g] :
        cr \in {"rows", "missing"}, people \in {"rows", "empty"},
        coll \in {"rows", "null"}, g \in {"rows", "empty", "missing"}}

\* the accumulators a call finds: empty, or holding the rows of an earlier ID
DissectTables ==
    {EmptyTables} \cup {_dissect_metadata_response(EmptyTables, DocFull, id) : id \in Ids}

InitDissect ==
    /\ ProgramAtRest
    /\ lookup = NoLookup /\ guess = NoGuess /\ ctor = NoCtor
    /\ \E tbls \in DissectTables, doc \in DissectDocs, tmdb_id \in Ids :
          dissect = [phase |-> "call", before |-> tbls, doc |-> doc,
                     tmdb_id |-> tmdb_id, raised |-> FALSE, after |-> tbls]

DissectCall ==
    /\ dissect.phase = "call"
    /\ LET out == Dissect(dissect.before, dissect.doc, dissect.tmdb_id)
       IN  dissect' = [dissect EXCEPT !.phase = "returned", !.raised = out.raised,
                                      !.after = out.tables]
    /\ UNCHANGED <<program, lookup, guess, ctor>>

NextDissect == DissectCall

SpecDissect == InitDissect /\ [][NextDissect]_vars

\* the rows a document holds for table c
SectionRows(doc, c) ==
    IF c = "details" THEN 1
    ELSE IF c = "collection" THEN (IF doc.belongs_to_collection = "rows" THEN 1 ELSE 0)
    ELSE IF doc[c] = "rows" THEN 1 ELSE 0

\* the call added to table c exactly the document's rows for c, under tmdb_id
Appended(c) ==
    dissect.after[c] =
        [dissect.before[c] EXCEPT ![dissect.tmdb_id] = @ + SectionRows(dissect.doc, c)]

\* every section the normalizer reads but the genres is present
OnlyGenresMissing ==
    /\ dissect.doc.genres = "missing"
    /\ dissect.doc.credits # "missing"

\* no section the normalizer reads is missing
WellFormed(doc) == doc.credits # "missing" /\ doc.genres # "missing"

\* C11: a document whose genres section is missing yields no genres rows,
\* and the call still appends the ID's rows to every other table.
C11_MissingSectionIsolated ==
    (dissect.phase = "returned" /\ OnlyGenresMissing)
        => /\ ~dissect.raised
           /\ dissect.after["genres"] = dissect.before["genres"]
           /\ \A c \in TableSet \ {"genres"} : Appended(c)

\* C13: a document with belongs_to_collection null adds no collection row
\* for the ID, and every other table gets the ID's rows.
C13_NullCollection ==
    (/\ dissect.phase = "returned"
     /\ dissect.doc.belongs_to_collection = "null"
     /\ WellFormed(dissect.doc))
        => /\ ~dissect.raised
           /\ dissect.after["collection"] = dissect.before["collection"]
           /\ \A c \in TableSet \ {"collection"} : Appended(c)

\* a call returned from a document with a null collection and with cast,
\* crew and genres rows, on accumulators that already held another ID's rows
C13_Witness ==
    /\ dissect.phase = "returned"
    /\ dissect.doc = DocNoCollection
    /\ dissect.before # EmptyTables
    /\ dissect.before["details"][dissect.tmdb_id] = 0
    /\ dissect.after["details"][dissect.tmdb_id] = 1
    /\ dissect.after["collection"][dissect.tmdb_id] = 0

-----------------------------------------------------------------------------
(* _guess_parsing_style on its own: one call on an arbitrary batch. *)

\* names of the form "2010" sep "I": the separators of the two patterns, the
\* second whitespace of " - " in three of its values, and a name without year
GuessNames ==
    { <<"2", "0", "1", "0", " ", "I">>,
      <<"2", "0", "1", "0", " ", "-", " ", "I">>,
      <<"2", "0", "1", "0", " ", "-", "\t", "I">>,
      <<"2", "0", "1", "0", " ", "-", "\n", "I">>,
      <<"I", "n", "c">> }

GuessLists == UNION {[1..n -> GuessNames] : n \in 0..MaxGuessList}

InitGuess ==
    /\ ProgramAtRest
    /\ lookup = NoLookup /\ dissect = NoDissect /\ ctor = NoCtor
    /\ \E names \in GuessLists :
          guess = [phase |-> "call", names |-> names, style |-> -1, exits |-> FALSE]

\* _guess_parsing_style with __PARSING_STYLE = -1, as _generic_parse calls it
Guess ==
    /\ guess.phase = "call"
    /\ LET style == _guess_parsing_style(guess.names)
       IN  guess' = [guess EXCEPT !.phase = "returned", !.style = style,
                                  !.exits = (style = -1)]
    /\ UNCHANGED <<program, lookup, dissect, ctor>>

NextGuess == Guess

SpecGuess == InitGuess /\ [][NextGuess]_vars

\* the score of pattern k on the batch of the call
Score(k) == FieldMatches(k, guess.names)

\* C15: the guess exits when every pattern scores 0; otherwise it selects a
\* pattern of the greatest score, and every pattern before the selected one
\* scores strictly less.
C15_GuessSelectsBest ==
    guess.phase = "returned"
        => IF \A k \in get_parsing_patterns : Score(k) = 0
           THEN guess.exits
           ELSE /\ ~guess.exits
                /\ guess.style \in get_parsing_patterns
                /\ \A k \in get_parsing_patterns :
                      /\ Score(k) <= Score(guess.style)
                      /\ k < guess.style => Score(k) < Score(guess.style)

\* a tie of the two patterns on a batch both match: pattern 0 is selected
C15_Witness ==
    /\ guess.phase = "returned"
    /\ Score(0) = Score(1) /\ Score(0) > 0
    /\ guess.style = 0

\* every name of the batch that pattern 1 matches, pattern 0 matches too;
\* pattern 1 scores no more than pattern 0 and is not selected
Pattern1Dominated ==
    /\ \A i \in 1..Len(guess.names) :
          Matches(1, guess.names[i]) => Matches(0, guess.names[i])
    /\ Score(1) <= Score(0)
    /\ guess.style # 1

\* C20 as stated: pattern 1 is dominated by pattern 0 on every batch.
C20_Pattern1NeverSelected == guess.phase = "returned" => Pattern1Dominated

\* no name of the batch has a newline as the whitespace after the "-" of
\* pattern 1
NoNewlineAfterDash ==
    \A i \in 1..Len(guess.names) :
        Matches(1, guess.names[i]) => guess.names[i][7] # "\n"

\* C20, amended: pattern 1 is dominated by pattern 0 on every batch in which
\* no name matched by pattern 1 has a newline after the "-".
C20_Pattern1NeverSelected_NoNewline ==
    (guess.phase = "returned" /\ NoNewlineAfterDash) => Pattern1Dominated

\* a batch with names pattern 1 matches, none with a newline after the "-":
\* pattern 0 is selected
C20_Witness ==
    /\ guess.phase = "returned"
    /\ NoNewlineAfterDash
    /\ Score(1) > 0
    /\ \E i \in 1..Len(guess.names) :
          Matches(1, guess.names[i]) /\ guess.names[i][7] = "\t"
    /\ guess.style = 0

-----------------------------------------------------------------------------
(* The checks of __init__ on its own: one call on arbitrary arguments. *)

\* the checks of lines 47-59: the output directory, the API key, the style
ArgumentsAccepted(is_dir, has_key, parsing_style) ==
    /\ is_dir
    /\ has_key
    /\ parsing_style >= -1 /\ parsing_style < MaxStyle

\* the selectors of the callers, with one below -1 and one above the patterns
CtorStyles == (-2)..(MaxStyle + 1)

InitCtor ==
    /\ ProgramAtRest
    /\ lookup = NoLookup /\ dissect = NoDissect /\ guess = NoGuess
    /\ \E is_dir \in BOOLEAN, has_key \in BOOLEAN, parsing_style \in CtorStyles,
          eager \in BOOLEAN, strict \in BOOLEAN :
          ctor = [phase |-> "call", is_dir |-> is_dir, has_key |-> has_key,
                  parsing_style |-> parsing_style, eager |-> eager,
                  strict |-> strict, accepted |-> FALSE]

CheckArguments ==
    /\ ctor.phase = "call"
    /\ ctor' = [ctor EXCEPT !.phase = "returned",
                            !.accepted = ArgumentsAccepted(ctor.is_dir, ctor.has_key,
                                                           ctor.parsing_style)]
    /\ UNCHANGED <<program, lookup, dissect, guess>>

NextCtor == CheckArguments

SpecCtor == InitCtor /\ [][NextCtor]_vars

\* C16: with a directory and an API key, the constructor accepts the style
\* -1 and the index of every pattern, and nothing else.
C16_AcceptsEveryPattern ==
    (ctor.phase = "returned" /\ ctor.is_dir /\ ctor.has_key)
        => (ctor.accepted <=> ctor.parsing_style \in {-1} \cup get_parsing_patterns)

-----------------------------------------------------------------------------
(* Properties of a run, under Spec. *)

\* the metadata loop ends in this step: by an exception or at its end
MetadataLoopEnds == pc = "get_metadata" /\ pc' = "idle"

\* C12: whatever the answers of the services, the metadata loop ends with
\* the run completed and every ID of the fetch set requested.
C12_FailureNeverAborts ==
    [][MetadataLoopEnds
          => /\ outcome' = "ok"
             /\ \A id \in metadata_lookup_ids :
                   \E i \in 1..Len(requests') : requests'[i] = Movie(id)]_vars

\* the metadata loop has fetched every ID and the run is about to return;
\* the run repeated the batch of the saved mapping, which no user has edited
RunFinished ==
    /\ pc = "get_metadata" /\ todo = {}
    /\ rerun
    /\ edits = 0

\* C14: when a run has finished, every row of every metadata table, loaded
\* or fetched, has a tmdb_id that is no sentinel and occurs in the tmdb_id
\* or tmdb_id_man column of the mapping.
C14_RowsInMapping ==
    RunFinished
        => \A t \in TableSet, id \in TmdbIds :
              tables[t][id] > 0 => (id \notin Sentinels /\ id \in MappingIds(mapping))

\* a parse call is past its checks: it resolves or fetches
RunInProgress == pc \in {"get_ids", "get_metadata"}

\* C17: no run gets past its checks with an empty batch, whatever the
\* parsing style.
C17_EmptyBatchAborts == RunInProgress => movielist # <<>>

\* write() changes the details CSV of an instance with eager=false, when the
\* file had one row per ID at most and the instance holds one unwritten row
\* per ID at most
WriteAfterLazyRun ==
    /\ ~EAGER
    /\ disk_tables' # disk_tables
    /\ \A id \in Ids : disk_tables["details"][id] <= 1
    /\ \A id \in Ids : tables["details"][id] <= disk_tables["details"][id] + 1

\* C18: write() after a run with eager=false leaves one details row at most
\* for every ID the instance found in the metadata CSVs at its construction.
C18_OneDetailsRowPerId ==
    [][WriteAfterLazyRun
          => \A id \in Ids \cap cached_metadata_ids :
                disk_tables'["details"][id] <= 1]_vars

-----------------------------------------------------------------------------
(* Two instances in one process, each on its own output directory. *)

\* the tmdb_ids of the metadata CSVs of the other directory
OtherDirIds == SUBSET Ids \ {{}}

\* movieparse(other_dir, ...) while the first instance is in use: the |= of
\* _read_existing updates the set object of the class attribute in place,
\* the object the first instance reads; the fields of the new instance are
\* its own
ConstructOther ==
    /\ pc = "idle"
    /\ \E ids \in OtherDirIds : cached_metadata_ids' = cached_metadata_ids \cup ids
    /\ UNCHANGED <<disk, pc, config, cached_mapping, mapping, tables,
                   metadata_lookup_ids, loops, movielist, requests, outcome,
                   saved_batch, rerun, single_calls, counters>>

NextTwoDirs == Next \/ ConstructOther

SpecTwoDirs == Init /\ [][NextTwoDirs]_vars

\* the tmdb_ids of the metadata CSVs of the instance's output directory
DiskIds == UNION {TableIds(disk_tables[t]) : t \in TableSet}

\* C19: the cached_metadata_ids of an instance holds only tmdb_ids of the
\* metadata CSVs of its own output directory, whatever other instances the
\* process constructs.
C19_SnapshotOfOwnDirectory == pc # "none" => cached_metadata_ids \subseteq DiskIds

====
